---- MODULE Spec2Model ----
(***************************************************************************)
(* Android asset scripts of RUNSTR (scripts/assets):                       *)
(*   create_circular_android_icons.py  - Circular Icon Generator           *)
(*   generate_splash_screens.py        - Splash Logo Generator             *)
(*   scale_android_icons.py            - Icon Upscaler                     *)
(*                                                                         *)
(* An image is a record [mode, w, h, g, px]: w x h are its pixel           *)
(* dimensions and px[x][y] holds its pixels sampled on a g x g lattice. With*)
(* g = w = h the lattice is the pixel raster itself and every operation    *)
(* below is pixel exact; with a smaller g each lattice cell stands for the *)
(* pixel at its centre and resampling is nearest-sample.  A pixel is       *)
(* [c, a]: one colour band (the three colour bands are treated alike by    *)
(* every operation used) and the alpha band, both 0..255.                  *)
(***************************************************************************)
EXTENDS Integers, Sequences, FiniteSets, TLC

VARIABLES
    exact,        \* TRUE: new images are rastered pixel by pixel
    srcIcon,      \* file at SOURCE_LOGO of the icon generator (or NoFile)
    srcSplash,    \* file at SOURCE_LOGO of the splash generator (or NoFile)
    dirs,         \* existing resource directories under BASE_PATH
    files,        \* path -> file content (or NoFile)
    proc,         \* procedure of the current (or last) run
    prevProc,     \* procedure of the run before it
    pc,           \* "idle", "loop" or "done"
    idx,          \* next work item of the run, 1..NItems+1
    errors,       \* error lines printed by the run
    warnings,     \* warning lines printed by the run
    skipped,      \* work items the run skipped
    log,          \* paths written by the run, in order
    startFiles,   \* files when the run started
    written,      \* paths written by any run so far
    runs,         \* runs started so far
    cc_pc,        \* position inside one create_circular_icon call
    cc_size,      \* its size argument
    cc_round,     \* its is_round argument
    cc_canvas,    \* its canvas
    cc_logo,      \* its logo_resized
    cc_logo_size, \* its logo_size
    cc_position,  \* its position (same for x and y)
    cc_composite, \* canvas as it was right after the logo was pasted
    cc_output     \* file saved at output_path

fsvars == <<srcSplash, dirs, files, proc, prevProc, pc, idx, errors, warnings,
            skipped, log, startFiles, written, runs>>

ccvars == <<cc_pc, cc_size, cc_round, cc_canvas, cc_logo, cc_logo_size,
            cc_position, cc_composite, cc_output>>

vars == <<exact, srcIcon, fsvars, ccvars>>

-----------------------------------------------------------------------------
(* Bounds *)

Lattice == 6

MaxRuns == 2

MaxMissing == 1

MaxPre == 2

-----------------------------------------------------------------------------
(* Tables *)

DensityOrder == <<"mdpi", "hdpi", "xhdpi", "xxhdpi", "xxxhdpi">>

ICON_SIZES == [mdpi |-> 48, hdpi |-> 72, xhdpi |-> 96, xxhdpi |-> 144, xxxhdpi |-> 192]

SPLASH_SIZES == [mdpi |-> 300, hdpi |-> 450, xhdpi |-> 600, xxhdpi |-> 900, xxxhdpi |-> 1200]

DENSITIES == [mdpi |-> 48, hdpi |-> 72, xhdpi |-> 96, xxhdpi |-> 144, xxxhdpi |-> 192]

\* LOGO_SCALE = 0.72, kept as the exact ratio 72/100
LOGO_SCALE_NUM == 72

LOGO_SCALE_DEN == 100

\* SCALE_FACTOR = 2.0
SCALE_FACTOR == 2

-----------------------------------------------------------------------------
(* Imaging primitives (PIL.Image, PIL.ImageDraw) *)

NoFile == [mode |-> "none", w |-> 0, h |-> 0, g |-> 0, px |-> <<>>]

Cells(g) == (0 .. g - 1) \X (0 .. g - 1)

\* lattice indices along one edge; a plane of pixels or band values is a
\* function [x \in Cols(g) |-> [y \in Cols(g) |-> value]]
Cols(g) == 0 .. g - 1

\* value of a plane at lattice cell p
At(plane, p) == plane[p[1]][p[2]]

\* pixel coordinate that lattice index i of an n-pixel edge stands for
PixelOf(i, n, g) == ((2 * i + 1) * n) \div (2 * g)

\* lattice index holding pixel coordinate x of an n-pixel edge
CellOf(x, n, g) == (x * g) \div n

Res(n) == IF exact THEN n ELSE Lattice

Transparent == [c |-> 0, a |-> 0]

Black == [c |-> 0, a |-> 255]

White == [c |-> 255, a |-> 255]

\* Image.new(mode, (w, h), fill)
Image_new(mode, w, h, fill) ==
    [mode |-> mode, w |-> w, h |-> h, g |-> Res(w),
     px |-> [x \in Cols(Res(w)) |-> [y \in Cols(Res(w)) |-> fill]]]

\* draw.ellipse([x0, y0, x1, y1], fill): the pixels whose centre lies in the
\* ellipse inscribed in the box
InEllipse(x, y, x0, y0, x1, y1) ==
    LET ea == x1 - x0
        eb == y1 - y0
        dx == 2 * (x - x0) - ea
        dy == 2 * (y - y0) - eb
    IN  IF ea = eb THEN dx * dx + dy * dy <= ea * ea
        ELSE dx * dx * eb * eb + dy * dy * ea * ea <= ea * ea * eb * eb

ellipse(im, x0, y0, x1, y1, fill) ==
    [im EXCEPT !.px = [x \in Cols(im.g) |-> [y \in Cols(im.g) |->
        IF InEllipse(PixelOf(x, im.w, im.g), PixelOf(y, im.h, im.g), x0, y0, x1, y1)
        THEN fill ELSE im.px[x][y]]]]

\* img.convert('RGBA'): an image without alpha becomes fully opaque
convert_RGBA(im) ==
    IF im.mode = "RGBA" THEN im
    ELSE [im EXCEPT !.mode = "RGBA",
                    !.px = [x \in Cols(im.g) |-> [y \in Cols(im.g) |->
                               [c |-> im.px[x][y].c, a |-> 255]]]]

\* img.resize((w, h), LANCZOS): the picture keeps its place relative to the
\* frame, the frame changes its pixel dimensions
resize(im, w, h) == [im EXCEPT !.w = w, !.h = h]

\* Pillow's 8 bit blend: (in1 * (255 - mask) + in2 * mask) / 255, rounded
BLEND8(mask, in1, in2) ==
    LET t == in1 * (255 - mask) + in2 * mask + 128
    IN  ((t \div 256) + t) \div 256

\* the band of an image that paste() uses when the image is given as mask
maskband(im) == [x \in Cols(im.g) |-> [y \in Cols(im.g) |-> im.px[x][y].a]]

\* im.paste(src, (ox, oy), mask): mask has the size and lattice of src
paste(im, src, ox, oy, mask) ==
    [im EXCEPT !.px = [x \in Cols(im.g) |-> [y \in Cols(im.g) |->
        LET sx == PixelOf(x, im.w, im.g) - ox
            sy == PixelOf(y, im.h, im.g) - oy
        IN  IF sx >= 0 /\ sx < src.w /\ sy >= 0 /\ sy < src.h
            THEN LET q == <<CellOf(sx, src.w, src.g), CellOf(sy, src.h, src.g)>>
                     m == At(mask, q)
                 IN  [c |-> BLEND8(m, im.px[x][y].c, At(src.px, q).c),
                      a |-> BLEND8(m, im.px[x][y].a, At(src.px, q).a)]
            ELSE im.px[x][y]]]]

\* Image.open(path): the file's image; canvas.save(path, 'PNG', optimize=True):
\* PNG is lossless, the file holds the image as it is
Image_open(file) == file

save(im) == im

-----------------------------------------------------------------------------
(* Sample master images and sample icon files the operator may have *)

\* an opaque white square without alpha band
LogoOpaque ==
    [mode |-> "RGB", w |-> 512, h |-> 512, g |-> Lattice,
     px |-> [x \in Cols(Lattice) |-> [y \in Cols(Lattice) |-> [c |-> 255, a |-> 255]]]]

\* a white glyph on transparent ground: transparent first column and last
\* row, half transparent second column, opaque elsewhere
LogoGlyph ==
    [mode |-> "RGBA", w |-> 512, h |-> 512, g |-> Lattice,
     px |-> [x \in Cols(Lattice) |-> [y \in Cols(Lattice) |->
        IF x = 0 \/ y = Lattice - 1 THEN Transparent
        ELSE IF x = 1 THEN [c |-> 255, a |-> 128]
        ELSE White]]]

\* a half transparent grey wash
LogoSoft ==
    [mode |-> "RGBA", w |-> 512, h |-> 512, g |-> Lattice,
     px |-> [x \in Cols(Lattice) |-> [y \in Cols(Lattice) |-> [c |-> 200, a |-> 128]]]]

IconSources == {LogoOpaque, LogoGlyph, LogoSoft}

-----------------------------------------------------------------------------
(* create_circular_android_icons.py: create_circular_icon *)

\* logo_size = int(size * LOGO_SCALE)
logo_size_of(size) == (size * LOGO_SCALE_NUM) \div LOGO_SCALE_DEN

\* the halving forgotten
logo_position_unhalved(size, logo_size) == size - logo_size

\* (size - logo_size) // 2
logo_position(size, logo_size) == (size - logo_size) \div 2

\* canvas with the black circle drawn
icon_background(size) ==
    ellipse(Image_new("RGBA", size, size, Transparent), 0, 0, size - 1, size - 1, Black)

\* logo_resized
icon_logo(source, size) ==
    resize(convert_RGBA(Image_open(source)), logo_size_of(size), logo_size_of(size))

\* canvas.paste(logo_resized, position, logo_resized)
icon_paste(canvas, logo, position) ==
    paste(canvas, logo, position, position, maskband(logo))

\* the mask argument of the final paste forgotten
round_mask_unmasked(canvas, size) ==
    LET output_img == Image_new("RGBA", size, size, Transparent)
        opaque == [x \in Cols(canvas.g) |-> [y \in Cols(canvas.g) |-> 255]]
    IN  paste(output_img, canvas, 0, 0, opaque)

\* the is_round branch: circular mask over the entire result
round_mask(canvas, size) ==
    LET mask == ellipse(Image_new("L", size, size, 0), 0, 0, size - 1, size - 1, 255)
        output_img == Image_new("RGBA", size, size, Transparent)
    IN  paste(output_img, canvas, 0, 0, mask.px)

create_circular_icon(source, size, is_round) ==
    LET logo == icon_logo(source, size)
        position == logo_position(size, logo.w)
        canvas == icon_paste(icon_background(size), logo, position)
    IN  save(IF is_round THEN round_mask(canvas, size) ELSE canvas)

-----------------------------------------------------------------------------
(* One call of create_circular_icon, statement by statement, pixel exact *)

IconSizeSet == {ICON_SIZES[d] : d \in DOMAIN ICON_SIZES}

FsIdle ==
    /\ srcSplash = NoFile
    /\ dirs = {}
    /\ files = <<>>
    /\ proc = "none"
    /\ prevProc = "none"
    /\ pc = "idle"
    /\ idx = 0
    /\ errors = 0
    /\ warnings = 0
    /\ skipped = 0
    /\ log = <<>>
    /\ startFiles = <<>>
    /\ written = {}
    /\ runs = 0

InitIcon ==
    /\ exact = TRUE
    /\ srcIcon \in IconSources
    /\ cc_size \in IconSizeSet
    /\ cc_round \in BOOLEAN
    /\ cc_pc = "new"
    /\ cc_canvas = NoFile
    /\ cc_logo = NoFile
    /\ cc_logo_size = 0
    /\ cc_position = 0
    /\ cc_composite = NoFile
    /\ cc_output = NoFile
    /\ FsIdle

\* canvas = Image.new('RGBA', (size, size), (0, 0, 0, 0))
CcNew ==
    /\ cc_pc = "new"
    /\ cc_canvas' = Image_new("RGBA", cc_size, cc_size, Transparent)
    /\ cc_pc' = "background"
    /\ UNCHANGED <<cc_size, cc_round, cc_logo, cc_logo_size, cc_position, cc_composite, cc_output>>

\* draw.ellipse([0, 0, size - 1, size - 1], fill='#000000')
CcBackground ==
    /\ cc_pc = "background"
    /\ cc_canvas' = icon_background(cc_size)
    /\ cc_pc' = "logo"
    /\ UNCHANGED <<cc_size, cc_round, cc_logo, cc_logo_size, cc_position, cc_composite, cc_output>>

\* logo = Image.open(source_path).convert('RGBA'); logo_size; logo_resized
CcLogo ==
    /\ cc_pc = "logo"
    /\ cc_logo_size' = logo_size_of(cc_size)
    /\ cc_logo' = icon_logo(srcIcon, cc_size)
    /\ cc_pc' = "position"
    /\ UNCHANGED <<cc_size, cc_round, cc_canvas, cc_position, cc_composite, cc_output>>

\* position = ((size - logo_size) // 2, (size - logo_size) // 2)
CcPosition ==
    /\ cc_pc = "position"
    /\ cc_position' = logo_position(cc_size, cc_logo_size)
    /\ cc_pc' = "paste"
    /\ UNCHANGED <<cc_size, cc_round, cc_canvas, cc_logo, cc_logo_size, cc_composite, cc_output>>

\* canvas.paste(logo_resized, position, logo_resized)
CcPaste ==
    /\ cc_pc = "paste"
    /\ cc_canvas' = icon_paste(cc_canvas, cc_logo, cc_position)
    /\ cc_composite' = cc_canvas'
    /\ cc_pc' = "mask"
    /\ UNCHANGED <<cc_size, cc_round, cc_logo, cc_logo_size, cc_position, cc_output>>

\* if is_round: ... canvas = output_img
CcMask ==
    /\ cc_pc = "mask"
    /\ cc_canvas' = IF cc_round THEN round_mask(cc_canvas, cc_size) ELSE cc_canvas
    /\ cc_pc' = "save"
    /\ UNCHANGED <<cc_size, cc_round, cc_logo, cc_logo_size, cc_position, cc_composite, cc_output>>

\* canvas.save(output_path, 'PNG', optimize=True)
CcSave ==
    /\ cc_pc = "save"
    /\ cc_output' = save(cc_canvas)
    /\ cc_pc' = "done"
    /\ UNCHANGED <<cc_size, cc_round, cc_canvas, cc_logo, cc_logo_size, cc_position, cc_composite>>

NextIcon ==
    \/ CcNew /\ UNCHANGED <<exact, srcIcon, fsvars>>
    \/ CcBackground /\ UNCHANGED <<exact, srcIcon, fsvars>>
    \/ CcLogo /\ UNCHANGED <<exact, srcIcon, fsvars>>
    \/ CcPosition /\ UNCHANGED <<exact, srcIcon, fsvars>>
    \/ CcPaste /\ UNCHANGED <<exact, srcIcon, fsvars>>
    \/ CcMask /\ UNCHANGED <<exact, srcIcon, fsvars>>
    \/ CcSave /\ UNCHANGED <<exact, srcIcon, fsvars>>

SpecIcon == InitIcon /\ [][NextIcon]_vars

\* the statement-by-statement call saves what the function computes
CcAgrees == cc_pc = "done" => cc_output = create_circular_icon(srcIcon, cc_size, cc_round)

-----------------------------------------------------------------------------
(* generate_splash_screens.py: generate_splash_logo *)

generate_splash_logo(source, size) ==
    LET img == Image_open(source)
        rgba == IF img.mode # "RGBA" THEN convert_RGBA(img) ELSE img
    IN  save(resize(rgba, size, size))

-----------------------------------------------------------------------------
(* scale_android_icons.py: scale_icon *)

\* the canvas allocated at the doubled size
scale_icon_doubled(input, canvas_size) ==
    LET img == convert_RGBA(Image_open(input))
        new_size == canvas_size * SCALE_FACTOR
        img_scaled == resize(img, new_size, new_size)
        canvas == Image_new("RGBA", new_size, new_size, Transparent)
    IN  save(paste(canvas, img_scaled, 0, 0, maskband(img_scaled)))

\* the mask argument of the paste forgotten
scale_icon_unmasked(input, canvas_size) ==
    LET img == convert_RGBA(Image_open(input))
        new_size == canvas_size * SCALE_FACTOR
        img_scaled == resize(img, new_size, new_size)
        canvas == Image_new("RGBA", canvas_size, canvas_size, Transparent)
        offset == (canvas_size - new_size) \div 2
        opaque == [x \in Cols(img_scaled.g) |-> [y \in Cols(img_scaled.g) |-> 255]]
    IN  save(paste(canvas, img_scaled, offset, offset, opaque))

scale_icon(input, canvas_size) ==
    LET img == convert_RGBA(Image_open(input))
        new_size == canvas_size * SCALE_FACTOR
        img_scaled == resize(img, new_size, new_size)
        canvas == Image_new("RGBA", canvas_size, canvas_size, Transparent)
        offset == (canvas_size - new_size) \div 2
    IN  save(paste(canvas, img_scaled, offset, offset, maskband(img_scaled)))

-----------------------------------------------------------------------------
(* The resource tree and the work items of the three main() loops *)

Range(s) == {s[i] : i \in DOMAIN s}

DensitySet == Range(DensityOrder)

NItems == 2 * Len(DensityOrder)

\* os.path.join(BASE_PATH, f'<kind>-{density}') and the files inside
Dir(kind, density) == <<kind, density>>

File(kind, density, name) == <<kind, density, name>>

DirOf(path) == <<path[1], path[2]>>

AllDirs == {Dir(k, d) : k \in {"mipmap", "drawable", "drawable-night"}, d \in DensitySet}

IconPaths == {File("mipmap", d, n) : d \in DensitySet, n \in {"ic_launcher.png", "ic_launcher_round.png"}}

SplashPaths == {File(k, d, "splashscreen_logo.png") : k \in {"drawable", "drawable-night"}, d \in DensitySet}

AllPaths == IconPaths \cup SplashPaths

\* position of a density in the table
DensityIndex(d) == CHOOSE i \in DOMAIN DensityOrder : DensityOrder[i] = d

\* i-th item of the icon generator: (density, standard), (density, round)
CircItem(i) ==
    LET d == DensityOrder[(i + 1) \div 2]
        is_round == (i % 2 = 0)
    IN  [density |-> d, size |-> ICON_SIZES[d], is_round |-> is_round,
         dir |-> Dir("mipmap", d),
         path |-> File("mipmap", d, IF is_round THEN "ic_launcher_round.png" ELSE "ic_launcher.png")]

\* i-th item of the splash generator: (density, regular), (density, dark)
SplashItem(i) ==
    LET d == DensityOrder[(i + 1) \div 2]
        kind == IF i % 2 = 0 THEN "drawable-night" ELSE "drawable"
    IN  [density |-> d, size |-> SPLASH_SIZES[d], dark |-> (i % 2 = 0),
         dir |-> Dir(kind, d),
         path |-> File(kind, d, "splashscreen_logo.png")]

\* i-th item of the upscaler: (density, 'ic_launcher.png'), (density, 'ic_launcher_round.png')
ScaleItem(i) ==
    LET d == DensityOrder[(i + 1) \div 2]
    IN  [density |-> d, size |-> DENSITIES[d],
         path |-> File("mipmap", d, IF i % 2 = 0 THEN "ic_launcher_round.png" ELSE "ic_launcher.png")]

\* the table value a file at path is meant to have as width and height
TableSize(path) == IF path[1] = "mipmap" THEN ICON_SIZES[path[2]] ELSE SPLASH_SIZES[path[2]]

\* os.path.exists
dir_exists(dir) == dir \in dirs

file_exists(path) == files[path] # NoFile

\* SOURCE_LOGO of each generator
Source(p) == IF p = "circ" THEN srcIcon ELSE srcSplash

Generators == {"circ", "splash"}

\* a master splash image without alpha band, brighter to the right
SplashArt ==
    [mode |-> "RGB", w |-> 1024, h |-> 1024, g |-> Lattice,
     px |-> [x \in Cols(Lattice) |-> [y \in Cols(Lattice) |-> [c |-> 30 * x, a |-> 255]]]]

\* icon files found in the tree before any run: a flat opaque black tile, a
\* flat translucent tile and a tile with a horizontal ramp; none has a
\* table size
IconFlat ==
    [mode |-> "RGBA", w |-> 64, h |-> 64, g |-> Lattice,
     px |-> [x \in Cols(Lattice) |-> [y \in Cols(Lattice) |-> Black]]]

IconWash ==
    [mode |-> "RGBA", w |-> 50, h |-> 50, g |-> Lattice,
     px |-> [x \in Cols(Lattice) |-> [y \in Cols(Lattice) |-> [c |-> 255, a |-> 200]]]]

IconRamp ==
    [mode |-> "RGBA", w |-> 100, h |-> 100, g |-> Lattice,
     px |-> [x \in Cols(Lattice) |-> [y \in Cols(Lattice) |-> [c |-> 30 * x, a |-> 255]]]]

PreImages == {IconFlat, IconWash, IconRamp}

-----------------------------------------------------------------------------
(* The three main() procedures, one step per work item *)

CcOff ==
    /\ cc_pc = "off"
    /\ cc_size = 0
    /\ cc_round = FALSE
    /\ cc_canvas = NoFile
    /\ cc_logo = NoFile
    /\ cc_logo_size = 0
    /\ cc_position = 0
    /\ cc_composite = NoFile
    /\ cc_output = NoFile

RunIdle ==
    /\ proc = "none"
    /\ prevProc = "none"
    /\ pc = "idle"
    /\ idx = 0
    /\ errors = 0
    /\ warnings = 0
    /\ skipped = 0
    /\ log = <<>>
    /\ startFiles = files
    /\ written = {}
    /\ runs = 0

\* the operator's machine before the first run: either master image may be
\* absent, up to MaxMissing resource directories may be absent, no asset
\* has been generated yet
Init ==
    /\ exact = FALSE
    /\ srcIcon \in {NoFile, LogoGlyph}
    /\ srcSplash \in {NoFile, SplashArt}
    /\ \E missing \in SUBSET AllDirs :
          /\ Cardinality(missing) <= MaxMissing
          /\ dirs = AllDirs \ missing
    /\ files = [p \in AllPaths |-> NoFile]
    /\ RunIdle
    /\ CcOff

\* the tree the upscaler is pointed at: up to MaxPre icon files of any
\* provenance exist
InitScale ==
    /\ exact = FALSE
    /\ srcIcon = NoFile
    /\ srcSplash = NoFile
    /\ dirs = AllDirs
    /\ \E present \in SUBSET IconPaths :
          /\ Cardinality(present) <= MaxPre
          /\ \E content \in [present -> PreImages] :
                files = [p \in AllPaths |-> IF p \in present THEN content[p] ELSE NoFile]
    /\ RunIdle
    /\ CcOff

\* a run starts when no run is in progress
BeginRun(p) ==
    /\ pc \in {"idle", "done"}
    /\ runs < MaxRuns
    /\ runs' = runs + 1
    /\ proc' = p
    /\ prevProc' = proc
    /\ startFiles' = files
    /\ log' = <<>>
    /\ warnings' = 0
    /\ skipped' = 0

\* canvas.save(output_path, ...) from inside a loop iteration
WriteFile(path, content) ==
    /\ files' = [files EXCEPT ![path] = content]
    /\ log' = Append(log, path)
    /\ written' = written \cup {path}

\* the existence check of the master image left out
source_missing_unchecked(p) == FALSE

\* not os.path.exists(SOURCE_LOGO)
source_missing(p) == Source(p) = NoFile

\* main() of a generator up to its loop: error and return, or enter the loop
GeneratorStart(p) ==
    /\ BeginRun(p)
    /\ IF source_missing(p)
       THEN errors' = 1 /\ pc' = "done" /\ idx' = 0
       ELSE errors' = 0 /\ pc' = "loop" /\ idx' = 1
    /\ UNCHANGED <<exact, srcIcon, srcSplash, dirs, files, written, ccvars>>

CircMainStart == GeneratorStart("circ")

SplashMainStart == GeneratorStart("splash")

\* main() of the upscaler up to its loop: no master image is needed
ScaleMainStart ==
    /\ BeginRun("scale")
    /\ errors' = 0
    /\ pc' = "loop"
    /\ idx' = 1
    /\ UNCHANGED <<exact, srcIcon, srcSplash, dirs, files, written, ccvars>>

\* the round icon saved at the standard icon's path
circ_output_path_standard(item) == File("mipmap", item.density, "ic_launcher.png")

\* standard_path / round_path handed to create_circular_icon
circ_output_path(item) == item.path

\* the file at the output path opened as the logo when there is one
circ_input_stale(path) == IF files[path] # NoFile THEN files[path] ELSE srcIcon

\* the file create_circular_icon opens: SOURCE_LOGO
circ_input(path) == srcIcon

\* one item of the icon generator's loop
CircStep ==
    /\ pc = "loop"
    /\ proc = "circ"
    /\ idx <= NItems
    /\ LET item == CircItem(idx)
       IN  IF dir_exists(item.dir)
           THEN /\ WriteFile(circ_output_path(item),
                             create_circular_icon(circ_input(item.path), item.size, item.is_round))
                /\ UNCHANGED <<warnings, skipped>>
           ELSE /\ warnings' = IF item.is_round THEN warnings ELSE warnings + 1
                /\ skipped' = skipped + 1
                /\ UNCHANGED <<files, log, written>>
    /\ idx' = idx + 1
    /\ UNCHANGED <<exact, srcIcon, srcSplash, dirs, proc, prevProc, pc, errors, startFiles, runs, ccvars>>

\* the dark destination guarded by the light directory
splash_dir_checked_regular(item) == Dir("drawable", item.density)

\* the directory whose existence guards the item: regular_dir / dark_dir
splash_dir_checked(item) == item.dir

\* one item of the splash generator's loop
SplashStep ==
    /\ pc = "loop"
    /\ proc = "splash"
    /\ idx <= NItems
    /\ LET item == SplashItem(idx)
       IN  IF dir_exists(splash_dir_checked(item))
           THEN /\ WriteFile(item.path, generate_splash_logo(srcSplash, item.size))
                /\ UNCHANGED <<warnings, skipped>>
           ELSE /\ warnings' = warnings + 1
                /\ skipped' = skipped + 1
                /\ UNCHANGED <<files, log, written>>
    /\ idx' = idx + 1
    /\ UNCHANGED <<exact, srcIcon, srcSplash, dirs, proc, prevProc, pc, errors, startFiles, runs, ccvars>>

\* the result saved under the round icon's name
scale_output_path_round(icon_path) == File(icon_path[1], icon_path[2], "ic_launcher_round.png")

\* scale_icon(icon_path, icon_path, size): output path is the input path
scale_output_path(icon_path) == icon_path

\* one item of the upscaler's loop
ScaleStep ==
    /\ pc = "loop"
    /\ proc = "scale"
    /\ idx <= NItems
    /\ LET item == ScaleItem(idx)
       IN  IF file_exists(item.path)
           THEN /\ WriteFile(scale_output_path(item.path), scale_icon(files[item.path], item.size))
                /\ UNCHANGED <<warnings, skipped>>
           ELSE /\ warnings' = warnings + 1
                /\ skipped' = skipped + 1
                /\ UNCHANGED <<files, log, written>>
    /\ idx' = idx + 1
    /\ UNCHANGED <<exact, srcIcon, srcSplash, dirs, proc, prevProc, pc, errors, startFiles, runs, ccvars>>

\* the loop is over: the closing lines are printed and main() returns
MainFinish ==
    /\ pc = "loop"
    /\ idx = NItems + 1
    /\ pc' = "done"
    /\ UNCHANGED <<exact, srcIcon, srcSplash, dirs, files, proc, prevProc, idx, errors,
                   warnings, skipped, log, startFiles, written, runs, ccvars>>

Next ==
    \/ CircMainStart
    \/ CircStep
    \/ SplashMainStart
    \/ SplashStep
    \/ ScaleMainStart
    \/ ScaleStep
    \/ MainFinish

Spec == Init /\ [][Next]_vars

NextScale ==
    \/ ScaleMainStart
    \/ ScaleStep
    \/ MainFinish

SpecScale == InitScale /\ [][NextScale]_vars

-----------------------------------------------------------------------------
(* Properties *)

ItemOf(p, i) == IF p = "circ" THEN CircItem(i) ELSE SplashItem(i)

Uniform(im) == \A p \in Cells(im.g) : At(im.px, p) = At(im.px, <<0, 0>>)

OutsideCircle(p, size) == ~InEllipse(p[1], p[2], 0, 0, size - 1, size - 1)

Pasted == cc_pc \in {"paste", "mask", "save", "done"}

\* C1: a generator run whose master image is missing prints one error,
\* enters no loop iteration, writes nothing and leaves every file as it was,
\* whatever directories exist.
C1_MissingSourceWritesNothing ==
    (proc \in Generators /\ Source(proc) = NoFile) =>
        /\ pc = "done"
        /\ idx = 0
        /\ errors = 1
        /\ log = <<>>
        /\ files = startFiles

C1_Witness ==
    /\ proc = "circ"
    /\ srcIcon = NoFile
    /\ pc = "done"
    /\ errors = 1
    /\ prevProc = "splash"
    /\ written # {}
    /\ \E d \in DensitySet : Dir("mipmap", d) \in dirs

\* C2: after a generator run with the master image present, an item was
\* written exactly when its own destination directory exists; this decides
\* every density, and the light and dark destinations, separately.
C2_WrittenIffOwnDirExists ==
    (pc = "done" /\ proc \in Generators /\ Source(proc) # NoFile) =>
        \A i \in 1 .. NItems :
            /\ (ItemOf(proc, i).path \in Range(log)) <=> (ItemOf(proc, i).dir \in dirs)
            /\ (ItemOf(proc, i).dir \in dirs) => files[ItemOf(proc, i).path] # NoFile

C2_Witness ==
    /\ pc = "done"
    /\ proc = "splash"
    /\ srcSplash # NoFile
    /\ \E d \in DensitySet :
          /\ Dir("drawable", d) \notin dirs
          /\ File("drawable", d, "splashscreen_logo.png") \notin Range(log)
          /\ File("drawable-night", d, "splashscreen_logo.png") \in Range(log)
    /\ Len(log) = NItems - 1

\* C3: every file any of the three procedures has written is square with
\* the table value of its density as edge, and after a generator run with
\* the master image present the file of every item whose directory exists
\* is there with that size.
C3_WrittenFilesHaveTableSize ==
    /\ \A p \in written :
          /\ files[p] # NoFile
          /\ files[p].w = TableSize(p)
          /\ files[p].h = TableSize(p)
    /\ (pc = "done" /\ proc \in Generators /\ Source(proc) # NoFile) =>
          \A i \in 1 .. NItems :
              (ItemOf(proc, i).dir \in dirs) =>
                  /\ files[ItemOf(proc, i).path] # NoFile
                  /\ files[ItemOf(proc, i).path].w = ItemOf(proc, i).size
                  /\ files[ItemOf(proc, i).path].h = ItemOf(proc, i).size

C3_Witness ==
    /\ pc = "done"
    /\ proc = "scale"
    /\ prevProc = "circ"
    /\ Len(log) = NItems
    /\ \A p \in IconPaths : files[p].w = ICON_SIZES[p[2]] /\ files[p].h = ICON_SIZES[p[2]]

\* C4: a generator run that directly follows a run of the same generator
\* leaves every file exactly as that first run left it.
C4_GeneratorsIdempotent ==
    (pc = "done" /\ proc \in Generators /\ prevProc = proc) => files = startFiles

C4_Witness ==
    /\ pc = "done"
    /\ proc = "circ"
    /\ prevProc = "circ"
    /\ srcIcon # NoFile
    /\ Len(log) >= NItems - 2
    /\ files = startFiles

C6_RoundIconClearOutsideCircle ==
    (cc_pc = "done" /\ cc_round) =>
        \A p \in Cells(cc_size) : OutsideCircle(p, cc_size) => At(cc_output.px, p).a = 0

C6_Witness ==
    /\ cc_pc = "done"
    /\ cc_round
    /\ cc_output.w = cc_size
    /\ \E p \in Cells(cc_size) :
          /\ OutsideCircle(p, cc_size)
          /\ At(cc_composite.px, p).a = 255
          /\ At(cc_output.px, p).a = 0

\* C7 as claimed: a run prints one warning for every item it skips.
C7_OneWarningPerSkippedItem == warnings = skipped

\* C8: an upscaler run visits all ten icon paths, rewrites exactly those
\* that existed, creates and deletes nothing and touches no other path.
C8_UpscalerInPlace ==
    (pc = "done" /\ proc = "scale") =>
        /\ Len(log) + skipped = NItems
        /\ Range(log) \subseteq IconPaths
        /\ \A p \in IconPaths : (p \in Range(log)) <=> (startFiles[p] # NoFile)
        /\ \A p \in AllPaths : (files[p] = NoFile) <=> (startFiles[p] = NoFile)
        /\ \A p \in AllPaths \ IconPaths : files[p] = startFiles[p]

C8_Witness ==
    /\ pc = "done"
    /\ proc = "scale"
    /\ \E i, j \in 1 .. NItems :
          /\ i < j
          /\ startFiles[ScaleItem(i).path] = NoFile
          /\ ScaleItem(j).path \in Range(log)
          /\ files[ScaleItem(i).path] = NoFile
          /\ files[ScaleItem(j).path].w = ScaleItem(j).size

\* C9: within one run no path is written twice, at most ten writes happen,
\* and the writes follow the order of the density table.
C9_OnePassInTableOrder ==
    /\ Len(log) <= 10
    /\ \A i, j \in 1 .. Len(log) :
          i < j => /\ log[i] # log[j]
                   /\ DensityIndex(log[i][2]) <= DensityIndex(log[j][2])

C9_Witness ==
    /\ pc = "done"
    /\ proc = "circ"
    /\ Len(log) = 10
    /\ log[1] = File("mipmap", "mdpi", "ic_launcher.png")
    /\ log[10] = File("mipmap", "xxxhdpi", "ic_launcher_round.png")

====
